---- MODULE Spec2Model ----
(***************************************************************************)
(* A model of rathole's src/helper.rs: host_port_pair, the PROXY protocol  *)
(* header encoder, tcp_connect_with_proxy and retry_notify_with_deadline.  *)
(* Text is a sequence of one-character strings; bytes are numbers 0..255.  *)
(***************************************************************************)
EXTENDS Integers, Sequences, FiniteSets, TLC

VARIABLES
    pIn, pOut, ppc,                     \* host_port_pair: input text, result, position
    hLocal, hRemote, hVersion, hOut, hpc, \* generate_proxy_protocol_header
    cProxy, cAddr, cIo, cOut, cpc,      \* tcp_connect_with_proxy
    loop, rx, sent, closed              \* retry_notify_with_deadline and the broadcast channel

vars == <<pIn, pOut, ppc, hLocal, hRemote, hVersion, hOut, hpc,
          cProxy, cAddr, cIo, cOut, cpc, loop, rx, sent, closed>>

pVars == <<pIn, pOut, ppc>>
hVars == <<hLocal, hRemote, hVersion, hOut, hpc>>
cVars == <<cProxy, cAddr, cIo, cOut, cpc>>
rVars == <<loop, rx, sent, closed>>

-----------------------------------------------------------------------------
(* Text helpers *)

Digits == <<"0", "1", "2", "3", "4", "5", "6", "7", "8", "9">>

HexDigits == <<"0", "1", "2", "3", "4", "5", "6", "7", "8", "9",
               "a", "b", "c", "d", "e", "f">>

IsDigit(c) == \E k \in 1..10 : Digits[k] = c

DigitVal(c) == (CHOOSE k \in 1..10 : Digits[k] = c) - 1

IsHexDigit(c) == \E k \in 1..16 : HexDigits[k] = c

HexVal(c) == (CHOOSE k \in 1..16 : HexDigits[k] = c) - 1

\* Display of an unsigned integer: decimal, no leading zeros, "0" for zero.
RECURSIVE ToDec(_)
ToDec(n) == IF n < 10 THEN <<Digits[n + 1]>>
            ELSE ToDec(n \div 10) \o <<Digits[(n % 10) + 1]>>

\* {:x} of an unsigned integer: lowercase hex, no leading zeros.
RECURSIVE ToHex(_)
ToHex(n) == IF n < 16 THEN <<HexDigits[n + 1]>>
            ELSE ToHex(n \div 16) \o <<HexDigits[(n % 16) + 1]>>

-----------------------------------------------------------------------------
(* host_port_pair *)

U16Max == 65535

\* The index of the first colon, 0 when there is none (str::find).
RfindFirst(s) ==
    IF \E k \in 1..Len(s) : s[k] = ":"
    THEN CHOOSE k \in 1..Len(s) : s[k] = ":" /\ \A j \in 1..(k - 1) : s[j] # ":"
    ELSE 0

\* str::rfind(':'): the index of the last colon, 0 when there is none.
Rfind(s) ==
    IF \E k \in 1..Len(s) : s[k] = ":"
    THEN CHOOSE k \in 1..Len(s) : s[k] = ":" /\ \A j \in (k + 1)..Len(s) : s[j] # ":"
    ELSE 0

\* The digits of a decimal numeral, most significant first, as a number;
\* -1 as soon as the value no longer fits in 16 bits (checked_mul/checked_add).
RECURSIVE AccU16(_, _)
AccU16(ds, acc) ==
    IF ds = <<>> THEN acc
    ELSE LET v == acc * 10 + DigitVal(Head(ds))
         IN IF v > U16Max THEN -1 ELSE AccU16(Tail(ds), v)

\* <u16 as FromStr>::from_str: an optional leading '+', then one or more
\* decimal digits whose value fits in 16 bits. -1 stands for Err(ParseIntError).
ParseU16(t) ==
    IF t = <<>> THEN -1
    ELSE LET ds == IF Head(t) = "+" THEN Tail(t) ELSE t
         IN IF ds = <<>> \/ \E k \in 1..Len(ds) : ~IsDigit(ds[k])
            THEN -1
            ELSE AccU16(ds, 0)

\* host_port_pair(s): panics without a colon, fails when the suffix is no u16.
host_port_pair(s) ==
    LET semi == Rfind(s)
    IN IF semi = 0
       THEN [kind |-> "panic", host |-> <<>>, port |-> 0]
       ELSE LET port == ParseU16(SubSeq(s, semi + 1, Len(s)))
            IN IF port < 0
               THEN [kind |-> "err", host |-> <<>>, port |-> 0]
               ELSE [kind |-> "ok", host |-> SubSeq(s, 1, semi - 1), port |-> port]

MaxLen == 6

Alphabet == {"a", ":", "9", "+"}

RECURSIVE TextsOfLen(_)
TextsOfLen(n) ==
    IF n = 0 THEN {<<>>}
    ELSE {Append(t, c) : t \in TextsOfLen(n - 1), c \in Alphabet}

ExampleCom443 == <<"e","x","a","m","p","l","e",".","c","o","m",":","4","4","3">>

V6Literal443 == <<"2","0","0","1",":","d","b","8",":",":","1",":","4","4","3">>

HostPortInputs ==
    UNION {TextsOfLen(n) : n \in 0..MaxLen}
    \cup {ExampleCom443, V6Literal443,
          <<"h", ":", "6", "5", "5", "3", "5">>,
          <<"h", ":", "6", "5", "5", "3", "6">>,
          <<"h", ":", "0", "0", "0", "0", "0", "8", "0">>,
          <<"h", ":", "-", "1">>,
          <<"n", "o", "c", "o", "l", "o", "n">>}

NoResult == [kind |-> "none", host |-> <<>>, port |-> 0]

InitHostPort == /\ pIn \in HostPortInputs
                /\ pOut = NoResult
                /\ ppc = "start"

IdleHostPort == /\ pIn = <<>>
                /\ pOut = NoResult
                /\ ppc = "idle"

HostPortCall == /\ ppc = "start"
                /\ pOut' = host_port_pair(pIn)
                /\ ppc' = "done"
                /\ UNCHANGED <<pIn, hVars, cVars, rVars>>

-----------------------------------------------------------------------------
(* generate_proxy_protocol_header *)

AsciiChars == <<" ", "+", "-", ".", ":",
                "0", "1", "2", "3", "4", "5", "6", "7", "8", "9",
                "C", "O", "P", "R", "T", "X", "Y",
                "a", "b", "c", "d", "e", "f", "\r", "\n">>

AsciiCodes == <<32, 43, 45, 46, 58,
                48, 49, 50, 51, 52, 53, 54, 55, 56, 57,
                67, 79, 80, 82, 84, 88, 89,
                97, 98, 99, 100, 101, 102, 13, 10>>

Ascii(c) == AsciiCodes[CHOOSE k \in 1..Len(AsciiChars) : AsciiChars[k] = c]

\* String::into_bytes of ASCII text.
IntoBytes(t) == [k \in 1..Len(t) |-> Ascii(t[k])]

\* The two bytes of a u16, low byte first.
ToLeBytes(n) == <<n % 256, n \div 256>>

\* u16::to_be_bytes
ToBeBytes(n) == <<n \div 256, n % 256>>

RECURSIVE JoinWith(_, _)
JoinWith(parts, sep) ==
    IF parts = <<>> THEN <<>>
    ELSE IF Len(parts) = 1 THEN parts[1]
    ELSE parts[1] \o sep \o JoinWith(Tail(parts), sep)

\* <Ipv4Addr as Display>::fmt: the four octets in decimal, dot-separated.
FmtIpv4(o) == JoinWith([k \in 1..4 |-> ToDec(o[k])], <<".">>)

\* The first longest run of zero segments, as [start, len] (start 0-based),
\* scanning as Ipv6Addr's Display does.
RECURSIVE LongestZeroRun(_, _, _, _)
LongestZeroRun(segs, i, cur, best) ==
    IF i > Len(segs) THEN best
    ELSE IF segs[i] = 0
         THEN LET c == [start |-> IF cur.len = 0 THEN i - 1 ELSE cur.start,
                        len |-> cur.len + 1]
              IN LongestZeroRun(segs, i + 1, c, IF c.len > best.len THEN c ELSE best)
         ELSE LongestZeroRun(segs, i + 1, [start |-> 0, len |-> 0], best)

FmtSegs(segs) == JoinWith([k \in 1..Len(segs) |-> ToHex(segs[k])], <<":">>)

IsV4Mapped(segs) == /\ \A k \in 1..5 : segs[k] = 0
                    /\ segs[6] = 65535

\* <Ipv6Addr as Display>::fmt: "::ffff:a.b.c.d" for an IPv4-mapped address,
\* else the segments in hex with the longest run of two or more zeros as "::".
FmtIpv6(segs) ==
    IF IsV4Mapped(segs)
    THEN <<":", ":", "f", "f", "f", "f", ":">>
         \o FmtIpv4(ToBeBytes(segs[7]) \o ToBeBytes(segs[8]))
    ELSE LET z == LongestZeroRun(segs, 1, [start |-> 0, len |-> 0],
                                 [start |-> 0, len |-> 0])
         IN IF z.len > 1
            THEN FmtSegs(SubSeq(segs, 1, z.start)) \o <<":", ":">>
                 \o FmtSegs(SubSeq(segs, z.start + z.len + 1, 8))
            ELSE FmtSegs(segs)

\* IpAddr's Display
FmtIp(a) == IF a.fam = 4 THEN FmtIpv4(a.ip) ELSE FmtIpv6(a.ip)

\* Ipv4Addr::octets / Ipv6Addr::octets
RECURSIVE SegOctets(_)
SegOctets(segs) ==
    IF segs = <<>> THEN <<>> ELSE ToBeBytes(Head(segs)) \o SegOctets(Tail(segs))

Octets(a) == IF a.fam = 4 THEN a.ip ELSE SegOctets(a.ip)

V2Sig == <<13, 10, 13, 10, 0, 13, 10, 81, 85, 73, 84, 10>>

\* A "v1" line with the local address and port before the remote ones.
V1HeaderLocalFirst(local, remote) ==
    IntoBytes(<<"P", "R", "O", "X", "Y", " ">>
              \o (IF local.fam = 4 THEN <<"T", "C", "P", "4">> ELSE <<"T", "C", "P", "6">>)
              \o <<" ">> \o FmtIp(local)
              \o <<" ">> \o FmtIp(remote)
              \o <<" ">> \o ToDec(local.port)
              \o <<" ">> \o ToDec(remote.port)
              \o <<"\r", "\n">>)

\* The "v1" arm: format!("PROXY {} {} {} {} {}\r\n", ...).into_bytes()
V1Header(local, remote) ==
    IntoBytes(<<"P", "R", "O", "X", "Y", " ">>
              \o (IF local.fam = 4 THEN <<"T", "C", "P", "4">> ELSE <<"T", "C", "P", "6">>)
              \o <<" ">> \o FmtIp(remote)
              \o <<" ">> \o FmtIp(local)
              \o <<" ">> \o ToDec(remote.port)
              \o <<" ">> \o ToDec(local.port)
              \o <<"\r", "\n">>)

\* A "v2" header with the ports low byte first.
V2HeaderLittleEndian(local, remote) ==
    V2Sig
    \o <<33>>
    \o (IF local.fam = 4 THEN <<17>> ELSE <<33>>)
    \o (IF local.fam = 4 THEN <<0, 12>> ELSE <<0, 36>>)
    \o Octets(remote)
    \o Octets(local)
    \o ToLeBytes(remote.port)
    \o ToLeBytes(local.port)

\* The "v2" arm: the concatenation of the eight slices.
V2Header(local, remote) ==
    V2Sig
    \o <<33>>
    \o (IF local.fam = 4 THEN <<17>> ELSE <<33>>)
    \o (IF local.fam = 4 THEN <<0, 12>> ELSE <<0, 36>>)
    \o Octets(remote)
    \o Octets(local)
    \o ToBeBytes(remote.port)
    \o ToBeBytes(local.port)

NoAddr == [fam |-> 0, ip |-> <<>>, port |-> 0]

V1 == <<"v", "1">>
V2 == <<"v", "2">>

\* With the fallback arm mistaken for "v1".
HeaderDefaultsToV1(local, remote, version) ==
    IF local = NoAddr \/ remote = NoAddr
    THEN [kind |-> "err", err |-> "io", bytes |-> <<>>]
    ELSE IF version = V2
         THEN [kind |-> "ok", err |-> "", bytes |-> V2Header(local, remote)]
         ELSE [kind |-> "ok", err |-> "", bytes |-> V1Header(local, remote)]

\* generate_proxy_protocol_header(s, proxy_protocol), s given by what
\* local_addr() and peer_addr() return (NoAddr: the call fails).
generate_proxy_protocol_header(local, remote, version) ==
    IF local = NoAddr \/ remote = NoAddr
    THEN [kind |-> "err", err |-> "io", bytes |-> <<>>]
    ELSE IF version = V1
         THEN [kind |-> "ok", err |-> "", bytes |-> V1Header(local, remote)]
         ELSE IF version = V2
              THEN [kind |-> "ok", err |-> "", bytes |-> V2Header(local, remote)]
              ELSE [kind |-> "err", err |-> "unknown_proxy_protocol", bytes |-> <<>>]

V4Ips == {<<127, 0, 0, 1>>, <<10, 0, 0, 255>>, <<192, 168, 1, 100>>, <<0, 0, 0, 0>>}

V6Ips == {<<0, 0, 0, 0, 0, 0, 0, 1>>,
          <<8193, 3512, 0, 0, 0, 0, 0, 1>>,
          <<0, 0, 0, 0, 0, 65535, 49152, 513>>,
          <<65152, 0, 0, 1, 0, 0, 0, 1>>,
          <<1, 0, 2, 0, 3, 0, 4, 5>>}

Ports == {0, 80, 443, 8080, 65535}

Versions == {V1, V2, <<"v", "3">>, <<>>, <<"V", "1">>}

Addrs(f) == {[fam |-> f, ip |-> i, port |-> p] :
                i \in (IF f = 4 THEN V4Ips ELSE V6Ips), p \in Ports}

\* A connected TCP socket has both addresses in one family.
InitHeader == /\ \E f \in {4, 6} :
                    /\ hLocal \in Addrs(f) \cup {NoAddr}
                    /\ hRemote \in Addrs(f) \cup {NoAddr}
              /\ hVersion \in Versions
              /\ hOut = [kind |-> "none", err |-> "", bytes |-> <<>>]
              /\ hpc = "start"

IdleHeader == /\ hLocal = NoAddr
              /\ hRemote = NoAddr
              /\ hVersion = <<>>
              /\ hOut = [kind |-> "none", err |-> "", bytes |-> <<>>]
              /\ hpc = "idle"

HeaderCall == /\ hpc = "start"
              /\ hOut' = generate_proxy_protocol_header(hLocal, hRemote, hVersion)
              /\ hpc' = "done"
              /\ UNCHANGED <<hLocal, hRemote, hVersion, pVars, cVars, rVars>>

-----------------------------------------------------------------------------
(* tcp_connect_with_proxy *)

NoProxy == [scheme |-> "none", hasHost |-> FALSE, hasPort |-> FALSE,
            user |-> "", pass |-> "absent"]

Schemes == {"socks5", "http", "ftp", "https"}

Proxies == {NoProxy} \cup
           [scheme : Schemes, hasHost : BOOLEAN, hasPort : BOOLEAN,
            user : {"", "u"}, pass : {"absent", "", "p"}]

Endpoints == [text : {ExampleCom443, V6Literal443,
                      <<"n", "o", "c", "o", "l", "o", "n">>,
                      <<"h", ":", "6", "5", "5", "3", "6">>},
              cached : BOOLEAN]

NoOutcome == [kind |-> "none", err |-> ""]

\* The credential is built when the username is non-empty or a password is present.
HasAuth(url) == url.user # "" \/ url.pass # "absent"

\* The first poll: from the entry of tcp_connect_with_proxy to the first
\* .await, where the dial has been started and its result is awaited. The
\* expect() calls on the proxy's host and port panic before any dial.
ConnectStart(url, addr) ==
    IF url = NoProxy
    THEN [io |-> <<IF addr.cached THEN "dial_cached" ELSE "dial_text">>,
          out |-> NoOutcome, pc |-> "dialing"]
    ELSE IF ~url.hasHost \/ ~url.hasPort
         THEN [io |-> <<>>, out |-> [kind |-> "panic", err |-> "proxy url field"],
               pc |-> "done"]
         ELSE [io |-> <<"dial_proxy">>, out |-> NoOutcome, pc |-> "dialing"]

\* The handshake of one scheme, up to its .await: host_port_pair(addr)? and
\* then the exchange started on the dialed stream.
Handshake(plain, withAuth, url, addr, io) ==
    LET hp == host_port_pair(addr.text)
    IN IF hp.kind = "panic"
       THEN [io |-> io, out |-> [kind |-> "panic", err |-> "missing semicolon"],
             pc |-> "done"]
       ELSE IF hp.kind = "err"
            THEN [io |-> io, out |-> [kind |-> "err", err |-> "parse"], pc |-> "done"]
            ELSE [io |-> Append(io, IF HasAuth(url) THEN withAuth ELSE plain),
                  out |-> NoOutcome, pc |-> "handshaking"]

\* match url.scheme() { "socks5" => .., "http" => .., _ => panic!(..) }
ConnectScheme(url, addr, io) ==
    IF url.scheme = "socks5"
    THEN Handshake("socks5_connect", "socks5_connect_auth", url, addr, io)
    ELSE IF url.scheme = "http"
    THEN Handshake("http_connect", "http_connect_basic_auth", url, addr, io)
    ELSE [io |-> io, out |-> [kind |-> "panic", err |-> "unknown proxy scheme"],
          pc |-> "done"]

\* The poll in which the dial's result arrives (ok: it succeeded): `?` returns
\* its error; without a proxy the stream is the result; with one the code
\* goes on, in the same poll, to the credential, the scheme and the handshake.
ConnectDialed(url, addr, io, ok) ==
    IF ~ok THEN [io |-> io, out |-> [kind |-> "err", err |-> "io"], pc |-> "done"]
    ELSE IF url = NoProxy
         THEN [io |-> io, out |-> [kind |-> "ok", err |-> ""], pc |-> "done"]
         ELSE ConnectScheme(url, addr, io)

\* The poll in which the handshake's result arrives.
ConnectHandshaked(io, ok) ==
    [io |-> io,
     out |-> IF ok THEN [kind |-> "ok", err |-> ""] ELSE [kind |-> "err", err |-> "io"],
     pc |-> "done"]

InitConnect == /\ cProxy \in Proxies
               /\ cAddr \in Endpoints
               /\ cIo = <<>>
               /\ cOut = NoOutcome
               /\ cpc = "start"

IdleConnect == /\ cProxy = NoProxy
               /\ cAddr = [text |-> <<>>, cached |-> FALSE]
               /\ cIo = <<>>
               /\ cOut = NoOutcome
               /\ cpc = "idle"

ConnStart == /\ cpc = "start"
             /\ LET n == ConnectStart(cProxy, cAddr)
                IN /\ cIo' = n.io
                   /\ cOut' = n.out
                   /\ cpc' = n.pc
             /\ UNCHANGED <<cProxy, cAddr, pVars, hVars, rVars>>

ConnDial == /\ cpc = "dialing"
            /\ \E ok \in BOOLEAN :
                 LET n == ConnectDialed(cProxy, cAddr, cIo, ok)
                 IN /\ cIo' = n.io
                    /\ cOut' = n.out
                    /\ cpc' = n.pc
            /\ UNCHANGED <<cProxy, cAddr, pVars, hVars, rVars>>

ConnHandshake == /\ cpc = "handshaking"
                 /\ \E ok \in BOOLEAN :
                      LET n == ConnectHandshaked(cIo, ok)
                      IN /\ cIo' = n.io
                         /\ cOut' = n.out
                         /\ cpc' = n.pc
                 /\ UNCHANGED <<cProxy, cAddr, pVars, hVars, rVars>>

-----------------------------------------------------------------------------
(* retry_notify_with_deadline                                              *)
(*                                                                         *)
(* Each loop is one call of retry_notify_with_deadline with its own        *)
(* broadcast::Receiver of the shared channel. A step Call makes the call's  *)
(* future and runs nothing of its body; a step PollTask is one poll of it. *)
(* The first poll evaluates the branch expressions of the select!, every   *)
(* poll polls the branches in an order chosen at random (the select! is    *)
(* not biased), and the first branch found ready wins.                     *)
(* The log of a loop lists, in the order they happen, the calls of the     *)
(* operation closure ("call"), the first polls of the futures it returns   *)
(* ("start"), their results ("ok", "transient", "permanent"), the calls of *)
(* notify ("notify") and the backoff waits of positive length ("sleep"). A *)
(* wait of length zero is ready when first polled, so the loop of          *)
(* Retry::poll goes on within the same poll.                               *)

Loops == {"a", "b"}

MaxFailures == 2

MaxFires == 1

Count(log, e) == Cardinality({k \in 1..Len(log) : log[k] = e})

IdleLoop == [st |-> "idle", woken |-> FALSE, delay |-> "none", fut |-> "none",
             boLeft |-> 0, log |-> <<>>, result |-> "none",
             firedBefore |-> FALSE, rxFired |-> FALSE, sawFire |-> FALSE,
             sawClosed |-> FALSE]

\* The future of a call just made, with the backoff policy it was given: an
\* async fn runs nothing of its body before its first poll.
\* History: firedBefore, the receiver held a firing when the call was made;
\* rxFired, it held one before the call returned; sawFire, the signal had
\* fired before the call returned, held by the receiver or not; sawClosed,
\* the sender was dropped before the call returned.
Called(b, fired, any, gone) ==
    [st |-> "called", woken |-> TRUE, delay |-> "none", fut |-> "none",
     boLeft |-> b, log |-> <<>>, result |-> "none",
     firedBefore |-> fired, rxFired |-> fired, sawFire |-> any, sawClosed |-> gone]

\* Evaluating the branch expressions of select!, at the first poll:
\* retry_notify resets the backoff and Retry::new calls the operation once to
\* make the first future.
Enter(r) ==
    IF r.st = "called"
    THEN [r EXCEPT !.st = "running", !.fut = "created", !.log = <<"call">>]
    ELSE r

\* The call has been made and has not returned.
Active(r) == r.st \in {"called", "running"}

\* The future of a finished select! is dropped with both branches.
Finish(r, res) ==
    [r EXCEPT !.st = "done", !.result = res, !.woken = FALSE,
              !.delay = "none", !.fut = "dropped"]

\* The results the operation may give at this point (the failures are bounded).
Outcomes(r) == {"ok", "permanent"} \cup
               (IF Count(r.log, "transient") < MaxFailures THEN {"transient"} ELSE {})

\* What polling the operation's current future may give: a future polled for
\* the first time completes at once or not, one in flight is pending until its
\* I/O completes, a completed one gives its result.
FutOutcomes(r) ==
    IF r.fut = "created" THEN {"pending"} \cup Outcomes(r)
    ELSE IF r.fut = "inflight" THEN {"pending"}
    ELSE {r.fut}

OnOk(r) == Finish([r EXCEPT !.log = Append(@, "ok")], "ok")

\* Error::Permanent handled as a retryable error.
OnPermanentRetried(r) ==
    [r EXCEPT !.log = @ \o <<"permanent", "notify", "sleep", "call">>,
              !.delay = "pending", !.fut = "created"]

\* Err(Error::Permanent(e)) => return Poll::Ready(Err(e))
OnPermanent(r) == Finish([r EXCEPT !.log = Append(@, "permanent")], "permanent")

\* A retry that notifies only when the policy chose the wait.
OnTransientQuiet(r, retryAfter, zero) ==
    IF retryAfter \/ r.boLeft > 0
    THEN [r EXCEPT !.log = @ \o <<"transient">>
                             \o (IF retryAfter THEN <<>> ELSE <<"notify">>)
                             \o (IF zero THEN <<"call">> ELSE <<"sleep", "call">>),
                   !.delay = IF zero THEN "elapsed" ELSE "pending",
                   !.fut = "created",
                   !.boLeft = IF retryAfter THEN @ ELSE @ - 1]
    ELSE Finish([r EXCEPT !.log = Append(@, "transient")], "exhausted")

\* Err(Error::Transient { err, retry_after }): the wait is retry_after, or
\* else the policy's next_backoff(); with a wait (zero: of length zero),
\* notify, make the sleep and call the operation for the next future; without
\* one, return the error.
OnTransient(r, retryAfter, zero) ==
    IF retryAfter \/ r.boLeft > 0
    THEN [r EXCEPT !.log = @ \o <<"transient", "notify">>
                             \o (IF zero THEN <<"call">> ELSE <<"sleep", "call">>),
                   !.delay = IF zero THEN "elapsed" ELSE "pending",
                   !.fut = "created",
                   !.boLeft = IF retryAfter THEN @ ELSE @ - 1]
    ELSE Finish([r EXCEPT !.log = Append(@, "transient")], "exhausted")

\* The poll of backoff's Retry future, as the set of states it can end in:
\* loop { wait out the delay; poll the operation's future; act on its result }.
\* The poll ends when the result is final, the future is pending or the new
\* delay is.
RECURSIVE PollRetryAll(_)
PollRetryAll(r) ==
    IF r.st = "done" \/ r.delay = "pending" THEN {r}
    ELSE LET r1 == [r EXCEPT !.delay = "none",
                             !.log = IF r.fut = "created" THEN Append(@, "start") ELSE @]
         IN UNION {
              IF o = "pending" THEN {[r1 EXCEPT !.fut = "inflight"]}
              ELSE IF o = "ok" THEN {OnOk(r1)}
              ELSE IF o = "permanent" THEN PollRetryAll(OnPermanent(r1))
              ELSE UNION {PollRetryAll(OnTransient(r1, ra, z)) :
                             ra \in BOOLEAN, z \in BOOLEAN}
              : o \in FutOutcomes(r)}

\* _ = deadline.recv() => Err(anyhow!("shutdown"))
Shutdown(r) == Finish(r, "shutdown")

\* One poll of the call's future, as the set of states it can end in: rxReady
\* is whether deadline.recv() is ready.
SelectAll(r, rxReady, order) ==
    LET q == [Enter(r) EXCEPT !.woken = FALSE]
    IN IF order = "deadline_first"
       THEN IF rxReady THEN {Shutdown(q)} ELSE PollRetryAll(q)
       ELSE {IF p.st = "done" THEN p ELSE IF rxReady THEN Shutdown(p) ELSE p :
                p \in PollRetryAll(q)}

\* The receiver has a value sent since its position.
RxHasValue(i) == rx[i].sub /\ rx[i].next < sent

\* broadcast::Receiver::recv is ready with a value, or with
\* Err(RecvError::Closed) once the sender is dropped; the arm takes either.
RxReady(i) == RxHasValue(i) \/ (rx[i].sub /\ closed)

InitRetry == /\ loop = [i \in Loops |-> IdleLoop]
             /\ rx = [i \in Loops |-> [sub |-> FALSE, next |-> 0]]
             /\ sent = 0
             /\ closed = FALSE

\* Sender::subscribe: the receiver sees the values sent from now on.
Subscribe(i) == /\ loop[i].st = "idle"
                /\ ~rx[i].sub
                /\ ~closed
                /\ rx' = [rx EXCEPT ![i] = [sub |-> TRUE, next |-> sent]]
                /\ UNCHANGED <<loop, sent, closed, pVars, hVars, cVars>>

\* Sender::send(true): every subscribed receiver has a value to receive.
Fire == /\ sent < MaxFires
        /\ ~closed
        /\ sent' = sent + 1
        /\ loop' = [i \in Loops |->
                      IF Active(loop[i])
                      THEN [loop[i] EXCEPT !.woken = TRUE, !.rxFired = TRUE,
                                           !.sawFire = TRUE]
                      ELSE loop[i]]
        /\ UNCHANGED <<rx, closed, pVars, hVars, cVars>>

\* The channel's Sender is dropped: the receivers are woken, recv ends with
\* Closed once the values sent have been received.
DropSender == /\ ~closed
              /\ closed' = TRUE
              /\ loop' = [i \in Loops |->
                            IF Active(loop[i])
                            THEN [loop[i] EXCEPT !.woken = TRUE, !.sawClosed = TRUE]
                            ELSE loop[i]]
              /\ UNCHANGED <<rx, sent, pVars, hVars, cVars>>

\* retry_notify_with_deadline(backoff, operation, notify, &mut rx) is called:
\* the future is made, the caller goes on.
Call(i) == /\ loop[i].st = "idle"
           /\ rx[i].sub
           /\ \E b \in 0..MaxFailures :
                loop' = [loop EXCEPT ![i] = Called(b, RxHasValue(i), sent > 0, closed)]
           /\ UNCHANGED <<rx, sent, closed, pVars, hVars, cVars>>

PollTask(i) ==
    /\ Active(loop[i])
    /\ loop[i].woken
    /\ \E order \in {"retry_first", "deadline_first"} :
         \E n \in SelectAll(loop[i], RxReady(i), order) :
            /\ loop' = [loop EXCEPT ![i] = n]
            /\ rx' = IF n.result = "shutdown" /\ RxHasValue(i)
                     THEN [rx EXCEPT ![i].next = @ + 1] ELSE rx
    /\ UNCHANGED <<sent, closed, pVars, hVars, cVars>>

\* The I/O of the operation's future in flight completes.
OpComplete(i) ==
    /\ loop[i].st = "running"
    /\ loop[i].fut = "inflight"
    /\ \E o \in Outcomes(loop[i]) :
         loop' = [loop EXCEPT ![i].fut = o, ![i].woken = TRUE]
    /\ UNCHANGED <<rx, sent, closed, pVars, hVars, cVars>>

\* The backoff wait's timer fires.
TimerElapse(i) ==
    /\ loop[i].st = "running"
    /\ loop[i].delay = "pending"
    /\ loop' = [loop EXCEPT ![i].delay = "elapsed", ![i].woken = TRUE]
    /\ UNCHANGED <<rx, sent, closed, pVars, hVars, cVars>>

-----------------------------------------------------------------------------
(* Specifications *)

NextHostPort == HostPortCall

InitP == InitHostPort /\ IdleHeader /\ IdleConnect /\ InitRetry

SpecHostPort == InitP /\ [][NextHostPort]_vars

NextHeader == HeaderCall

InitH == IdleHostPort /\ InitHeader /\ IdleConnect /\ InitRetry

SpecHeader == InitH /\ [][NextHeader]_vars

NextConnect == ConnStart \/ ConnDial \/ ConnHandshake

InitC == IdleHostPort /\ IdleHeader /\ InitConnect /\ InitRetry

SpecConnect == InitC /\ [][NextConnect]_vars

Init == IdleHostPort /\ IdleHeader /\ IdleConnect /\ InitRetry

Next == \/ Fire
        \/ DropSender
        \/ \E i \in Loops : Subscribe(i)
        \/ \E i \in Loops : Call(i)
        \/ \E i \in Loops : PollTask(i)
        \/ \E i \in Loops : OpComplete(i)
        \/ \E i \in Loops : TimerElapse(i)

Spec == Init /\ [][Next]_vars

\* One call alone on the channel: the other loop is never started.
InitOneCall == /\ IdleHostPort /\ IdleHeader /\ IdleConnect
               /\ loop = [i \in Loops |->
                            IF i = "a" THEN IdleLoop ELSE [IdleLoop EXCEPT !.st = "unused"]]
               /\ rx = [i \in Loops |-> [sub |-> FALSE, next |-> 0]]
               /\ sent = 0
               /\ closed = FALSE

SpecOneCall == InitOneCall /\ [][Next]_vars

-----------------------------------------------------------------------------
(* Reading text back, for the claims about the encoders and the splitter *)

RECURSIVE Pow10(_)
Pow10(k) == IF k = 0 THEN 1 ELSE 10 * Pow10(k - 1)

RECURSIVE Pow16(_)
Pow16(k) == IF k = 0 THEN 1 ELSE 16 * Pow16(k - 1)

RECURSIVE SumTo(_, _)
SumTo(f, n) == IF n = 0 THEN 0 ELSE f[n] + SumTo(f, n - 1)

\* The value of a decimal numeral, by the weight of each digit's place.
DecValue(ds) ==
    SumTo([k \in 1..Len(ds) |-> DigitVal(ds[k]) * Pow10(Len(ds) - k)], Len(ds))

HexValue(hs) ==
    SumTo([k \in 1..Len(hs) |-> HexVal(hs[k]) * Pow16(Len(hs) - k)], Len(hs))

IsDecNumeral(t) == t # <<>> /\ \A k \in 1..Len(t) : IsDigit(t[k])

\* A decimal numeral as Display writes it: no sign, no leading zero.
IsCanonicalDec(t) == IsDecNumeral(t) /\ (Len(t) > 1 => t[1] # "0")

IsHexNumeral(t) == t # <<>> /\ Len(t) <= 4 /\ \A k \in 1..Len(t) : IsHexDigit(t[k])

\* What a reader of "host:port" accepts as a port: digits, optionally after
\* one '+', denoting a number below 2^16.
IsPortText(t) ==
    LET ds == IF t # <<>> /\ t[1] = "+" THEN Tail(t) ELSE t
    IN IsDecNumeral(ds) /\ DecValue(ds) < 65536

PortValue(t) == DecValue(IF t[1] = "+" THEN Tail(t) ELSE t)

\* The fields of t between the occurrences of sep.
RECURSIVE SplitAt(_, _, _)
SplitAt(t, sep, cur) ==
    IF t = <<>> THEN <<cur>>
    ELSE IF Head(t) = sep THEN <<cur>> \o SplitAt(Tail(t), sep, <<>>)
    ELSE SplitAt(Tail(t), sep, Append(cur, Head(t)))

Split(t, sep) == SplitAt(t, sep, <<>>)

Chr(b) == AsciiChars[CHOOSE k \in 1..Len(AsciiCodes) : AsciiCodes[k] = b]

IsAsciiText(bs) == \A k \in 1..Len(bs) : \E j \in 1..Len(AsciiCodes) : AsciiCodes[j] = bs[k]

FromBytes(bs) == [k \in 1..Len(bs) |-> Chr(bs[k])]

\* Reading a dotted quad: the four octets, or <<>> when it is not one.
ReadIpv4(t) ==
    LET f == Split(t, ".")
    IN IF Len(f) = 4 /\ \A k \in 1..4 : IsCanonicalDec(f[k]) /\ DecValue(f[k]) < 256
       THEN [k \in 1..4 |-> DecValue(f[k])]
       ELSE <<>>

\* The segments a colon-separated list of groups denotes; a dotted quad
\* stands for two segments. <<-1>> marks a group that is neither.
RECURSIVE ReadGroups(_)
ReadGroups(gs) ==
    IF gs = <<>> THEN <<>>
    ELSE LET g == Head(gs)
         IN (IF IsHexNumeral(g) THEN <<HexValue(g)>>
             ELSE LET q == ReadIpv4(g)
                  IN IF q = <<>> THEN <<-1>>
                     ELSE <<q[1] * 256 + q[2], q[3] * 256 + q[4]>>)
            \o ReadGroups(Tail(gs))

GroupsOf(t) == IF t = <<>> THEN <<>> ELSE ReadGroups(Split(t, ":"))

\* Reading an IPv6 literal (RFC 4291 text forms): eight segments, "::"
\* standing once for the zeros left out; <<>> when it is not one.
ReadIpv6(t) ==
    LET cc == {k \in 1..(Len(t) - 1) : t[k] = ":" /\ t[k + 1] = ":"}
    IN IF cc = {}
       THEN LET g == GroupsOf(t)
            IN IF Len(g) = 8 /\ \A k \in 1..8 : g[k] >= 0 THEN g ELSE <<>>
       ELSE IF Cardinality(cc) > 1 THEN <<>>
       ELSE LET k == CHOOSE x \in cc : TRUE
                l == GroupsOf(SubSeq(t, 1, k - 1))
                r == GroupsOf(SubSeq(t, k + 2, Len(t)))
            IN IF /\ Len(l) + Len(r) <= 7
                  /\ \A j \in 1..Len(l) : l[j] >= 0
                  /\ \A m \in 1..Len(r) : r[m] >= 0
               THEN l \o [j \in 1..(8 - Len(l) - Len(r)) |-> 0] \o r
               ELSE <<>>

ReadIp(fam, t) == IF fam = 4 THEN ReadIpv4(t) ELSE ReadIpv6(t)

-----------------------------------------------------------------------------
(* Claims *)

\* C9: for every input with a colon whose suffix after the last colon is a
\* 16-bit port, host_port_pair returns the text before the LAST colon and
\* that port; "example.com:443" gives ("example.com", 443) and
\* "2001:db8::1:443" gives ("2001:db8::1", 443).
Thm_C9_LastColonSplit ==
    ppc = "done" =>
        /\ \A k \in 1..Len(pIn) :
              (/\ pIn[k] = ":"
               /\ \A j \in (k + 1)..Len(pIn) : pIn[j] # ":"
               /\ IsPortText(SubSeq(pIn, k + 1, Len(pIn))))
              => /\ pOut.kind = "ok"
                 /\ pOut.host = SubSeq(pIn, 1, k - 1)
                 /\ pOut.port = PortValue(SubSeq(pIn, k + 1, Len(pIn)))
        /\ pIn = ExampleCom443
              => pOut = [kind |-> "ok", port |-> 443,
                         host |-> <<"e","x","a","m","p","l","e",".","c","o","m">>]
        /\ pIn = V6Literal443
              => pOut = [kind |-> "ok", port |-> 443,
                         host |-> <<"2","0","0","1",":","d","b","8",":",":","1">>]

Wit_C9_EarlierColons ==
    /\ ppc = "done"
    /\ pOut.kind = "ok"
    /\ Count(pIn, ":") >= 3
    /\ Count(pOut.host, ":") >= 2
    /\ pOut.port = 999

\* C7: for every IPv4 local/remote pair the "v2" header is exactly 28 bytes:
\* the 12-byte signature, 0x21, 0x11, the length 0x000C, the remote address,
\* the local address, the remote port and the local port, ports big-endian.
Thm_C7_V2Ipv4Layout ==
    (hpc = "done" /\ hVersion = <<"v", "2">> /\ hLocal.fam = 4 /\ hRemote.fam = 4) =>
        /\ hOut.kind = "ok"
        /\ Len(hOut.bytes) = 28
        /\ \A k \in 1..28 : hOut.bytes[k] \in 0..255
        /\ SubSeq(hOut.bytes, 1, 12) = <<13, 10, 13, 10, 0, 13, 10, 81, 85, 73, 84, 10>>
        /\ hOut.bytes[13] = 33
        /\ hOut.bytes[14] = 17
        /\ hOut.bytes[15] = 0 /\ hOut.bytes[16] = 12
        /\ SubSeq(hOut.bytes, 17, 20) = hRemote.ip
        /\ SubSeq(hOut.bytes, 21, 24) = hLocal.ip
        /\ hOut.bytes[25] * 256 + hOut.bytes[26] = hRemote.port
        /\ hOut.bytes[27] * 256 + hOut.bytes[28] = hLocal.port

Wit_C7_V2Ipv4 ==
    /\ hpc = "done"
    /\ hVersion = <<"v", "2">>
    /\ hLocal.fam = 4 /\ hRemote.fam = 4
    /\ hLocal.ip # hRemote.ip
    /\ hRemote.port = 443 /\ hLocal.port = 8080
    /\ Len(hOut.bytes) = 28

\* C8: for every address pair the "v1" header is the single ASCII line
\* "PROXY <proto> <remoteIP> <localIP> <remotePort> <localPort>\r\n", remote
\* before local, <proto> being TCP4 iff the local address is IPv4, else TCP6.
Thm_C8_V1Line ==
    (hpc = "done" /\ hVersion = <<"v", "1">> /\ hLocal # NoAddr /\ hRemote # NoAddr) =>
        /\ hOut.kind = "ok"
        /\ IsAsciiText(hOut.bytes)
        /\ LET t == FromBytes(hOut.bytes)
               n == Len(t)
               f == Split(SubSeq(t, 1, n - 2), " ")
           IN /\ n > 2
              /\ t[n - 1] = "\r" /\ t[n] = "\n"
              /\ Count(t, "\r") = 1 /\ Count(t, "\n") = 1
              /\ Len(f) = 6
              /\ f[1] = <<"P", "R", "O", "X", "Y">>
              /\ (f[2] = <<"T", "C", "P", "4">>) <=> (hLocal.fam = 4)
              /\ (f[2] = <<"T", "C", "P", "6">>) <=> (hLocal.fam # 4)
              /\ ReadIp(hRemote.fam, f[3]) = hRemote.ip
              /\ ReadIp(hLocal.fam, f[4]) = hLocal.ip
              /\ IsCanonicalDec(f[5]) /\ DecValue(f[5]) = hRemote.port
              /\ IsCanonicalDec(f[6]) /\ DecValue(f[6]) = hLocal.port

Wit_C8_V1Ipv6 ==
    /\ hpc = "done"
    /\ hVersion = <<"v", "1">>
    /\ hLocal.fam = 6 /\ hRemote.fam = 6
    /\ hRemote.ip = <<8193, 3512, 0, 0, 0, 0, 0, 1>>
    /\ hLocal.ip = <<0, 0, 0, 0, 0, 65535, 49152, 513>>
    /\ hRemote.port = 443 /\ hLocal.port = 80
    /\ hOut.bytes = <<80, 82, 79, 88, 89, 32, 84, 67, 80, 54, 32,
                      50, 48, 48, 49, 58, 100, 98, 56, 58, 58, 49, 32,
                      58, 58, 102, 102, 102, 102, 58, 49, 57, 50, 46, 48, 46, 50, 46, 49, 32,
                      52, 52, 51, 32, 56, 48, 13, 10>>

\* C10: for every version string other than "v1" and "v2" the encoder fails
\* with the unknown-protocol error and produces no bytes, whatever the
\* connection's addresses.
Thm_C10_UnknownVersion ==
    (/\ hpc = "done"
     /\ hVersion # <<"v", "1">> /\ hVersion # <<"v", "2">>
     /\ hLocal # NoAddr /\ hRemote # NoAddr) =>
        /\ hOut.kind = "err"
        /\ hOut.err = "unknown_proxy_protocol"
        /\ hOut.bytes = <<>>

Wit_C10_V3 ==
    /\ hpc = "done"
    /\ hVersion = <<"v", "3">>
    /\ hLocal.fam = 6 /\ hRemote.fam = 6
    /\ hOut.kind = "err"

\* C6: connecting through a proxy whose scheme is neither "socks5" nor "http"
\* returns the unsupported-scheme error as a value, and no socket I/O has
\* been attempted before that failure.
CE_C6_UnsupportedSchemeNoIo ==
    (/\ cpc = "done"
     /\ cProxy # NoProxy
     /\ cProxy.hasHost /\ cProxy.hasPort
     /\ cProxy.scheme \notin {"socks5", "http"}) =>
        /\ cOut = [kind |-> "err", err |-> "unsupported_proxy_scheme"]
        /\ cIo = <<>>

\* In a loop's log every failure retried is followed at once by its
\* notification, the wait if it has a length, and the next call of the
\* operation, and nothing else calls notify or the operation after the first
\* call.
WellOrdered(log) ==
    \A k \in 1..Len(log) :
        /\ (log[k] = "transient" /\ k < Len(log)) => log[k + 1] = "notify"
        /\ log[k] = "notify" =>
              /\ k > 1 /\ log[k - 1] = "transient"
              /\ k + 1 <= Len(log)
              /\ \/ log[k + 1] = "call"
                 \/ (log[k + 1] = "sleep" /\ k + 2 <= Len(log) /\ log[k + 2] = "call")
        /\ (log[k] = "call" /\ k > 1) =>
              \/ log[k - 1] = "notify"
              \/ (log[k - 1] = "sleep" /\ k > 2 /\ log[k - 2] = "notify")
        /\ log[k] = "sleep" => (k > 1 /\ log[k - 1] = "notify")

\* What the retries of a loop add up to: a success observed ends the call
\* with it, after n failures, n + 1 calls and n notifications.
RetryAccounting(r) ==
    LET n == Count(r.log, "transient")
    IN /\ WellOrdered(r.log)
       /\ Count(r.log, "ok") > 0 =>
             /\ r.st = "done" /\ r.result = "ok"
             /\ r.log[Len(r.log)] = "ok"
             /\ Count(r.log, "ok") = 1
             /\ Count(r.log, "call") = n + 1
             /\ Count(r.log, "notify") = n
       /\ r.result = "ok" => Count(r.log, "ok") = 1

\* C1: when the signal has fired before the call, the call returns the
\* shutdown error and the operation is invoked zero times, whichever branch
\* of the race is polled first.
CE_C1_FiredBeforeCall ==
    \A i \in Loops :
        (loop[i].st = "done" /\ loop[i].firedBefore) =>
            /\ loop[i].result = "shutdown"
            /\ Count(loop[i].log, "call") = 0

\* C2: a call whose signal fires before the retry loop has completed (here:
\* after the call was made and its first backoff wait had started) returns
\* the shutdown error, and nothing of the loop is left to invoke the
\* operation or notify once it has returned.
CE_C2_FiredBeforeCompletion ==
    \A i \in Loops :
        (/\ loop[i].st = "done"
         /\ loop[i].rxFired /\ ~loop[i].firedBefore
         /\ Count(loop[i].log, "sleep") >= 1) =>
            /\ loop[i].result = "shutdown"
            /\ loop[i].fut = "dropped"
            /\ loop[i].delay = "none"

\* C3 as stated: when the operation fails with a retryable error n times and
\* then succeeds and the signal never fires, the call returns the success (so
\* never the shutdown error), the operation has been invoked n+1 times and
\* notify n times, each notification after its failure and before the next
\* invocation.
CE_C3_NoFiringNoShutdown ==
    \A i \in Loops :
        /\ RetryAccounting(loop[i])
        /\ (loop[i].st = "done" /\ ~loop[i].sawFire) => loop[i].result # "shutdown"

\* C3 as amended: the same, for a signal that never fires and whose sender
\* is not dropped before the call returns.
Thm_C3_RetriesThenSuccess ==
    \A i \in Loops :
        /\ RetryAccounting(loop[i])
        /\ (loop[i].st = "done" /\ ~loop[i].sawFire /\ ~loop[i].sawClosed)
              => loop[i].result # "shutdown"

Wit_C3_TwoFailuresThenSuccess ==
    \E i \in Loops :
        /\ loop[i].result = "ok"
        /\ Count(loop[i].log, "transient") = 2
        /\ Count(loop[i].log, "notify") = 2
        /\ Count(loop[i].log, "sleep") = 1
        /\ sent = 0
        /\ ~closed

\* C4: a permanent error of the operation ends the call with that error: no
\* notification for it, no backoff wait, no further invocation, and no need
\* for the signal to fire.
Thm_C4_PermanentError ==
    \A i \in Loops :
        LET r == loop[i]
        IN /\ \A k \in 1..Len(r.log) :
                 r.log[k] = "permanent" =>
                    /\ k = Len(r.log)
                    /\ r.st = "done"
                    /\ r.result = "permanent"
                    /\ r.fut = "dropped"
                    /\ r.delay = "none"
           /\ r.result = "permanent" =>
                 /\ Count(r.log, "permanent") = 1
                 /\ Count(r.log, "notify") = Count(r.log, "transient")
                 /\ Count(r.log, "sleep") <= Count(r.log, "transient")
                 /\ Count(r.log, "call") = Count(r.log, "transient") + 1

Wit_C4_PermanentWithoutSignal ==
    \E i \in Loops :
        /\ loop[i].st = "done"
        /\ loop[i].result = "permanent"
        /\ Count(loop[i].log, "transient") = 1
        /\ sent = 0
        /\ ~closed

\* C5: one firing of the shared signal is observed by every call that uses
\* it: a call during which the signal has fired has returned the shutdown
\* error or its receiver still has the firing to receive, also when the
\* receiver subscribed only after the firing.
CE_C5_EveryLoopObserves ==
    \A i \in Loops :
        loop[i].sawFire =>
            \/ loop[i].result = "shutdown"
            \/ (Active(loop[i]) /\ RxReady(i))

====
